---- MODULE Spec2Model ----
(***************************************************************************)
(* The koruza-controller broker daemon (server.c): per-connection command  *)
(* intake, the command queue scheduler, the response framer and the serial *)
(* port reset path, as a state machine of libevent callbacks.              *)
(*                                                                         *)
(* Pointers are addresses 1..NAddr; NULL is 0.  A connection context lives *)
(* at an address from accept until connection_context_free; the allocator  *)
(* hands a freed address to a later accept.  Bytes are their codes         *)
(* (10 = LF, 13 = CR, 35 = '#').                                           *)
(*                                                                         *)
(* Every command that is submitted gets a token, which stays with it in    *)
(* the queue, on the device and in the device's answer, so that the        *)
(* properties can tell whose bytes are whose.  Tokens, owners and the      *)
(* records of what the last callback wrote are history: no handler reads   *)
(* them.                                                                   *)
(***************************************************************************)
EXTENDS Integers, Sequences, FiniteSets, TLC

\* ------------------------------------------------------------- bounds
NAddr == 2          \* heap addresses a connection context can occupy
MaxCmds == 2        \* commands submitted and not yet retired
SplitPoint == 10    \* where a read event may cut the device's output
MaxResponse == 9    \* bytes of the tail of the response buffer that are kept
ErrCap == 2         \* where the count of error replies per command saturates

\* ------------------------------------------------- program constants
NULL == 0
CommandSize == 64   \* char command[64]
BufferSize == 128   \* char buffer[128]

Addr == 1..NAddr
DeepCmds == MaxCmds + 1   \* the same where the queue is to grow longer
LongCmds == MaxCmds + 2   \* and where it is to hold three records
Tok == 1..LongCmds

\* "\r\n#STOP\r\n"
STOP_MARK == <<13, 10, 35, 83, 84, 79, 80, 13, 10>>
\* "#ERROR\r\n#STOP\r\n"
ERROR_REPLY == <<35, 69, 82, 82, 79, 82, 13, 10, 35, 83, 84, 79, 80, 13, 10>>
\* what the device answers to one command: "#START\r\n#STOP\r\n"
DeviceReply == <<35, 83, 84, 65, 82, 84, 13, 10, 35, 83, 84, 79, 80, 13, 10>>

Min(a, b) == IF a < b THEN a ELSE b
Range(f) == {f[i] : i \in DOMAIN f}

\* history: bytes tagged with the token of the command they answer and with
\* whether the broker synthesized them (syn) or the device sent them
Tag(bytes, tok, syn) ==
  [i \in 1..Len(bytes) |-> [b |-> bytes[i], tok |-> tok, syn |-> syn]]
Bytes(tagged) == [i \in 1..Len(tagged) |-> tagged[i].b]

VARIABLES
  alive,             \* address -> TRUE iff a connection context lives there
  command,           \* address -> connection_context_t.command[0 .. cmd_length-1]
  active_connection, \* server_context_t.active_connection
  cmd_queue,         \* the records from cmd_queue_start to cmd_queue_tail, in
                     \*   the order in which the scheduler takes them
  cmd_queue_start,   \* server_context_t.cmd_queue_start: address of a record
  cmd_queue_tail,    \* server_context_t.cmd_queue_tail
  cmd_next,          \* address of a record -> its command_queue_t.next
  client,            \* the locals of client_send_device_command in a client
                     \*   process, what its socket still delivers, and its
                     \*   result once it has returned
  serial_bev,        \* TRUE iff server_context_t.serial_bev is not NULL
  timer,             \* TRUE iff timeout_event is pending
  response,          \* the tail of server_context_t.response[0 .. rsp_length-1]:
                     \*   all of it up to MaxResponse bytes, which are the only
                     \*   ones the end-of-message test reads
  crashed,           \* the process has died on an invalid memory access
  dev,               \* bytes the device has emitted and the broker has not read
  active_id,         \* history: token of the command active_connection waits for
  owner,             \* history: token -> address of the connection that
                     \*   submitted it, NULL once that connection is closed
  unwritten,         \* history: tokens submitted and not yet written, oldest first
  nerr,              \* history: error replies written for the command active_id
  wrote,             \* history: what the last callback wrote to the serial port
  out,               \* history: address -> what the last callback wrote to the
                     \*   socket of the connection living there
  env,               \* what the process was started with: its options, its
                     \*   configuration file, and the system call that fails
  proc               \* the process: where main is, its exit code, the speed the
                     \*   port was set to, whether the client socket exists

vars == <<alive, command, active_connection, cmd_queue, serial_bev, timer, response,
          crashed, dev, active_id, owner, unwritten, nerr, wrote, out, env, proc,
          cmd_queue_start, cmd_queue_tail, cmd_next, client>>

\* The whole state as one record, so that handlers compose as the C calls do.
Cur == [alive |-> alive, command |-> command,
        active_connection |-> active_connection, cmd_queue |-> cmd_queue,
        cmd_queue_start |-> cmd_queue_start, cmd_queue_tail |-> cmd_queue_tail,
        cmd_next |-> cmd_next,
        serial_bev |-> serial_bev, timer |-> timer, response |-> response,
        crashed |-> crashed, dev |-> dev, active_id |-> active_id,
        owner |-> owner, unwritten |-> unwritten, nerr |-> nerr,
        wrote |-> <<>>, out |-> [a \in Addr |-> <<>>]]

\* tokens some command still carries
Used(s) == {s.cmd_queue[i].tok : i \in DOMAIN s.cmd_queue}
             \cup {s.dev[i].tok : i \in DOMAIN s.dev}
             \cup Range(s.unwritten) \cup ({s.active_id} \ {0})

Commit(state) == \E s \in {state} :
  /\ alive' = s.alive /\ command' = s.command
  /\ active_connection' = s.active_connection /\ cmd_queue' = s.cmd_queue
  /\ cmd_queue_start' = s.cmd_queue_start /\ cmd_queue_tail' = s.cmd_queue_tail
  /\ cmd_next' = s.cmd_next
  /\ serial_bev' = s.serial_bev /\ timer' = s.timer /\ response' = s.response
  /\ crashed' = s.crashed /\ dev' = s.dev /\ active_id' = s.active_id
  /\ owner' = [t \in Tok |-> IF t \in Used(s) THEN s.owner[t] ELSE NULL]
  /\ unwritten' = s.unwritten /\ nerr' = s.nerr
  /\ wrote' = s.wrote /\ out' = s.out
  /\ UNCHANGED <<env, proc, client>>

rsp_length(s) == Len(s.response)
cmd_length(s, c) == Len(s.command[c])

\* ------------------------------------------------------------ helpers

Without(seq, t) == SelectSeq(seq, LAMBDA x : x # t)

\* history: the active slot turns to the command tok (0: to none); a command
\* it leaves unwritten is abandoned
Activate(s, tok) ==
  [s EXCEPT !.active_id = tok,
            !.nerr = IF tok = s.active_id THEN @ ELSE 0,
            !.unwritten = IF tok = s.active_id THEN @ ELSE Without(@, s.active_id)]

\* strdup: the bytes before the first NUL
strdup(str) ==
  IF \E i \in 1..Len(str) : str[i] = 0
  THEN SubSeq(str, 1, (CHOOSE i \in 1..Len(str) :
                         str[i] = 0 /\ \A j \in 1..(i-1) : str[j] # 0) - 1)
  ELSE str

\* history: each byte with who submitted the command it answers
Stamp(s, tagged) ==
  [i \in 1..Len(tagged) |->
     [b |-> tagged[i].b, tok |-> tagged[i].tok, syn |-> tagged[i].syn,
      who |-> s.owner[tagged[i].tok]]]

\* bufferevent_write(c->conn_bev, ...): c may be a freed context, and then the
\* access is invalid: the process dies (ub = "crash") or the bytes go nowhere.
conn_write(s, c, tagged, ub) ==
  IF s.alive[c] THEN [s EXCEPT !.out[c] = @ \o Stamp(s, tagged)]
  ELSE IF ub = "crash" THEN [s EXCEPT !.crashed = TRUE]
  ELSE s

\* the 15 bytes "#ERROR\r\n#STOP\r\n" to the active connection
write_error(s, ub) ==
  LET s1 == conn_write(s, s.active_connection,
                       Tag(ERROR_REPLY, s.active_id, TRUE), ub)
  IN IF s.alive[s.active_connection]
     THEN [s1 EXCEPT !.nerr = Min(@ + 1, ErrCap)]
     ELSE s1

\* a byte read from memory the program does not own: no value of a char
Indeterminate == 256

\* the length bytes at command: those of the string, and when length exceeds
\* it (a strdup copy that ended at a NUL) the terminating NUL and then bytes
\* behind the allocation, whose values nothing determines
read_command(cmd, length) ==
  IF length <= Len(cmd) THEN SubSeq(cmd, 1, length)
  ELSE cmd \o <<0>> \o [i \in 1..(length - Len(cmd) - 1) |-> Indeterminate]

\* bufferevent_write(server->serial_bev, command, length): the device takes the
\* command and will answer it.  Reading behind the allocation is an invalid
\* access: the process dies (ub = "crash") or whatever lies there is written.
serial_write(s, cmd, length, tok, ub) ==
  IF length > Len(cmd) + 1 /\ ub = "crash" THEN [s EXCEPT !.crashed = TRUE]
  ELSE [s EXCEPT !.wrote = Append(@, [tok |-> tok, bytes |-> read_command(cmd, length),
                                      pending |-> s.unwritten,
                                      reopened |-> FALSE]),
                 !.unwritten = Without(@, tok),
                 !.dev = @ \o Tag(DeviceReply, tok, FALSE)]

server_serial_start_response_timer(s) == [s EXCEPT !.timer = TRUE]

\* cmd->next = NULL and the linking of the record at address cmd behind the
\* tail (server_send_command); a record lives at the address of its token
queue_append(s, cmd) ==
  LET s1 == [s EXCEPT !.cmd_next[cmd] = NULL] IN
  IF s1.cmd_queue_tail = NULL
  THEN [s1 EXCEPT !.cmd_queue_start = cmd, !.cmd_queue_tail = cmd]
  ELSE [s1 EXCEPT !.cmd_next[s1.cmd_queue_tail] = cmd, !.cmd_queue_tail = cmd]

\* an unlinking that leaves the tail pointer at the record it removes
queue_unlink_stale(s) ==
  LET cmd == s.cmd_queue_start IN
  IF cmd = NULL THEN s
  ELSE [s EXCEPT !.cmd_queue_start = s.cmd_next[cmd], !.cmd_next[cmd] = NULL]

\* the unlinking of the record at cmd_queue_start (server_serial_command_done);
\* the record is freed afterwards
queue_unlink(s) ==
  LET cmd == s.cmd_queue_start IN
  IF cmd = NULL THEN s
  ELSE [s EXCEPT !.cmd_queue_start = s.cmd_next[cmd],
                 !.cmd_queue_tail = IF s.cmd_next[cmd] = NULL THEN NULL ELSE @,
                 !.cmd_next[cmd] = NULL]

\* a free that empties the active slot whichever connection it holds
connection_context_free_any(s, ctx) ==
  LET s1 == [Activate(s, 0) EXCEPT !.active_connection = NULL]
  IN [s1 EXCEPT !.alive[ctx] = FALSE,
                !.command[ctx] = <<>>,
                !.out[ctx] = <<>>,
                !.owner = [t \in Tok |-> IF @[t] = ctx THEN NULL ELSE @[t]]]

\* a free that cancels the response timer with the active connection
connection_context_free_cancel(s, ctx) ==
  LET s1 == IF s.active_connection = ctx
            THEN [Activate(s, 0) EXCEPT !.active_connection = NULL, !.timer = FALSE]
            ELSE s
  IN [s1 EXCEPT !.alive[ctx] = FALSE,
                !.command[ctx] = <<>>,
                !.out[ctx] = <<>>,
                !.owner = [t \in Tok |-> IF @[t] = ctx THEN NULL ELSE @[t]]]

\* a free that also drops the queued commands of the connection
connection_context_free_prune(s, ctx) ==
  LET s1 == IF s.active_connection = ctx
            THEN [Activate(s, 0) EXCEPT !.active_connection = NULL]
            ELSE s
  IN [s1 EXCEPT !.alive[ctx] = FALSE,
                !.command[ctx] = <<>>,
                !.out[ctx] = <<>>,
                !.cmd_queue = SelectSeq(@, LAMBDA r : r.connection # ctx),
                !.owner = [t \in Tok |-> IF @[t] = ctx THEN NULL ELSE @[t]]]

connection_context_free(s, ctx) ==
  LET s1 == IF s.active_connection = ctx
            THEN [Activate(s, 0) EXCEPT !.active_connection = NULL]
            ELSE s
  IN [s1 EXCEPT !.alive[ctx] = FALSE,
                !.command[ctx] = <<>>,
                !.out[ctx] = <<>>,
                !.owner = [t \in Tok |-> IF @[t] = ctx THEN NULL ELSE @[t]]]

\* history: the last write went to a port that was reopened for it
Reopened(s) ==
  IF s.wrote = <<>> THEN s ELSE [s EXCEPT !.wrote[Len(s.wrote)].reopened = TRUE]

RECURSIVE server_serial_reset(_, _, _, _)

\* a dispatch that does not arm the response timer
server_serial_send_command_untimed(s, cmd, length, tok, ok, ub) ==
  IF ~s.serial_bev
  THEN LET s2 == server_serial_reset(s, FALSE, ok, ub) IN
       IF ~ok
       THEN IF s2.active_connection # NULL THEN write_error(s2, ub) ELSE s2
       ELSE Reopened(serial_write(s2, cmd, length, tok, ub))
  ELSE serial_write(s, cmd, length, tok, ub)

\* a dispatch that writes the command whether or not the port could be reopened
server_serial_send_command_blind(s, cmd, length, tok, ok, ub) ==
  LET s1 == server_serial_start_response_timer(s) IN
  IF ~s1.serial_bev
  THEN serial_write(server_serial_reset(s1, FALSE, ok, ub), cmd, length, tok, ub)
  ELSE serial_write(s1, cmd, length, tok, ub)

server_serial_send_command(s, cmd, length, tok, ok, ub) ==
  LET s1 == server_serial_start_response_timer(s) IN
  IF ~s1.serial_bev
  THEN LET s2 == server_serial_reset(s1, FALSE, ok, ub) IN
       IF ~ok
       THEN IF s2.active_connection # NULL THEN write_error(s2, ub) ELSE s2
       ELSE Reopened(serial_write(s2, cmd, length, tok, ub))
  ELSE serial_write(s1, cmd, length, tok, ub)

\* a completion that dispatches the newest record of the queue
server_serial_command_done_newest(s, ok, ub) ==
  LET s1 == [s EXCEPT !.response = <<>>, !.timer = FALSE] IN
  IF s1.cmd_queue # <<>>
  THEN LET cmd == s1.cmd_queue[Len(s1.cmd_queue)]
           s2 == [Activate(s1, cmd.tok) EXCEPT
                    !.active_connection = cmd.connection,
                    !.cmd_queue = SubSeq(@, 1, Len(@) - 1)]
       IN server_serial_send_command(s2, cmd.command, cmd.cmd_length, cmd.tok, ok, ub)
  ELSE [Activate(s1, 0) EXCEPT !.active_connection = NULL]

\* a completion that keeps what the response buffer holds
server_serial_command_done_keep(s, ok, ub) ==
  LET s1 == [s EXCEPT !.timer = FALSE] IN
  IF s1.cmd_queue # <<>>
  THEN LET cmd == Head(s1.cmd_queue)
           s2 == queue_unlink([Activate(s1, cmd.tok) EXCEPT
                                 !.active_connection = cmd.connection,
                                 !.cmd_queue = Tail(@)])
       IN server_serial_send_command(s2, cmd.command, cmd.cmd_length, cmd.tok, ok, ub)
  ELSE [Activate(s1, 0) EXCEPT !.active_connection = NULL]

server_serial_command_done(s, ok, ub) ==
  LET s1 == [s EXCEPT !.response = <<>>, !.timer = FALSE] IN
  IF s1.cmd_queue # <<>>
  THEN LET cmd == Head(s1.cmd_queue)
           s2 == queue_unlink([Activate(s1, cmd.tok) EXCEPT
                                 !.active_connection = cmd.connection,
                                 !.cmd_queue = Tail(@)])
       IN server_serial_send_command(s2, cmd.command, cmd.cmd_length, cmd.tok, ok, ub)
  ELSE [Activate(s1, 0) EXCEPT !.active_connection = NULL]

\* a reset that reopens the port and leaves the failed command in the active slot
server_serial_reset_keep(s, fail_active, ok, ub) ==
  LET s1 == IF fail_active /\ s.active_connection # NULL
            THEN write_error(s, ub)
            ELSE s
      s2 == [s1 EXCEPT !.serial_bev = FALSE, !.dev = <<>>]
  IN IF s1.crashed THEN s1
     ELSE IF ~ok
     THEN server_serial_start_response_timer(s2)
     ELSE [s2 EXCEPT !.serial_bev = TRUE]

\* a reset that completes the active command whatever fail_active says
server_serial_reset_complete(s, fail_active, ok, ub) ==
  LET s1 == IF fail_active /\ s.active_connection # NULL
            THEN write_error(s, ub)
            ELSE s
      s2 == [s1 EXCEPT !.serial_bev = FALSE, !.dev = <<>>]
  IN IF s1.crashed THEN s1
     ELSE IF ~ok
     THEN server_serial_start_response_timer(s2)
     ELSE server_serial_command_done([s2 EXCEPT !.serial_bev = TRUE], ok, ub)

\* a reset that completes only when a command was active
server_serial_reset_idle(s, fail_active, ok, ub) ==
  LET s1 == IF fail_active /\ s.active_connection # NULL
            THEN write_error(s, ub)
            ELSE s
      s2 == [s1 EXCEPT !.serial_bev = FALSE, !.dev = <<>>]
  IN IF s1.crashed THEN s1
     ELSE IF ~ok
     THEN server_serial_start_response_timer(s2)
     ELSE LET s3 == [s2 EXCEPT !.serial_bev = TRUE] IN
          IF fail_active /\ s.active_connection # NULL
          THEN server_serial_command_done(s3, ok, ub)
          ELSE s3

\* a reset that gives up when the port cannot be reopened
server_serial_reset_noretry(s, fail_active, ok, ub) ==
  LET s1 == IF fail_active /\ s.active_connection # NULL
            THEN write_error(s, ub)
            ELSE s
      s2 == [s1 EXCEPT !.serial_bev = FALSE, !.dev = <<>>]
  IN IF s1.crashed THEN s1
     ELSE IF ~ok
     THEN s2
     ELSE LET s3 == [s2 EXCEPT !.serial_bev = TRUE] IN
          IF fail_active THEN server_serial_command_done(s3, ok, ub) ELSE s3

\* ok: whether open, fcntl and tcsetattr all succeed.  Closing the port drops
\* what the device had sent.
server_serial_reset(s, fail_active, ok, ub) ==
  LET s1 == IF fail_active /\ s.active_connection # NULL
            THEN write_error(s, ub)
            ELSE s
      s2 == [s1 EXCEPT !.serial_bev = FALSE, !.dev = <<>>]
  IN IF s1.crashed THEN s1
     ELSE IF ~ok
     THEN server_serial_start_response_timer(s2)
     ELSE LET s3 == [s2 EXCEPT !.serial_bev = TRUE] IN
          IF fail_active THEN server_serial_command_done(s3, ok, ub) ELSE s3

\* the return value of server_send_command
server_send_command_ret(s, alloc) == s.active_connection = NULL \/ alloc

\* a scheduler that drops the command when the record cannot be allocated and
\* leaves the connection open
server_send_command_drop(s, connection, cmd, size, alloc, ok, ub) ==
  LET tok == CHOOSE t \in Tok \ Used(s) : \A u \in Tok \ Used(s) : t <= u
      s1 == [s EXCEPT !.owner[tok] = connection, !.unwritten = Append(@, tok)]
  IN IF s.active_connection # NULL
     THEN IF ~alloc
          THEN s
          ELSE queue_append(
                 [s1 EXCEPT !.cmd_queue = Append(@, [connection |-> connection,
                                                     command |-> strdup(cmd),
                                                     cmd_length |-> size,
                                                     tok |-> tok])],
                 tok)
     ELSE server_serial_send_command(
            [Activate(s1, tok) EXCEPT !.active_connection = connection],
            cmd, size, tok, ok, ub)

server_send_command(s, connection, cmd, size, alloc, ok, ub) ==
  LET tok == CHOOSE t \in Tok \ Used(s) : \A u \in Tok \ Used(s) : t <= u
      s1 == [s EXCEPT !.owner[tok] = connection, !.unwritten = Append(@, tok)]
  IN IF s.active_connection # NULL
     THEN IF ~alloc
          THEN connection_context_free(s, connection)
          ELSE queue_append(
                 [s1 EXCEPT !.cmd_queue = Append(@, [connection |-> connection,
                                                     command |-> strdup(cmd),
                                                     cmd_length |-> size,
                                                     tok |-> tok])],
                 tok)
     ELSE server_serial_send_command(
            [Activate(s1, tok) EXCEPT !.active_connection = connection],
            cmd, size, tok, ok, ub)

\* a reader that keeps a connection whose accumulator is full
server_connection_read_cb_noclose(s, connection, data, alloc, ok, ub) ==
  LET n == Min(Len(data), CommandSize - cmd_length(s, connection))
      s1 == [s EXCEPT !.command[connection] = @ \o SubSeq(data, 1, n)]
      buf == s1.command[connection]
  IN IF n <= 0 THEN s
     ELSE IF buf[cmd_length(s1, connection)] = 10
     THEN LET s2 == server_send_command(s1, connection, buf,
                                        cmd_length(s1, connection), alloc, ok, ub)
          IN IF ~server_send_command_ret(s1, alloc) THEN s2
             ELSE [s2 EXCEPT !.command[connection] = <<>>]
     ELSE s1

\* a reader that closes only once more than 64 bytes are held
server_connection_read_cb_gt(s, connection, data, alloc, ok, ub) ==
  LET n == Min(Len(data), CommandSize - cmd_length(s, connection))
      s1 == [s EXCEPT !.command[connection] = @ \o SubSeq(data, 1, n)]
      buf == s1.command[connection]
  IN IF n <= 0 THEN s
     ELSE IF cmd_length(s1, connection) > CommandSize
     THEN connection_context_free(s1, connection)
     ELSE IF buf[cmd_length(s1, connection)] = 10
     THEN LET s2 == server_send_command(s1, connection, buf,
                                        cmd_length(s1, connection), alloc, ok, ub)
          IN IF ~server_send_command_ret(s1, alloc) THEN s2
             ELSE [s2 EXCEPT !.command[connection] = <<>>]
     ELSE s1

server_connection_read_cb(s, connection, data, alloc, ok, ub) ==
  LET n == Min(Len(data), CommandSize - cmd_length(s, connection))
      s1 == [s EXCEPT !.command[connection] = @ \o SubSeq(data, 1, n)]
      buf == s1.command[connection]
  IN IF n <= 0 THEN s
     ELSE IF cmd_length(s1, connection) >= CommandSize
     THEN connection_context_free(s1, connection)
     ELSE IF buf[cmd_length(s1, connection)] = 10
     THEN LET s2 == server_send_command(s1, connection, buf,
                                        cmd_length(s1, connection), alloc, ok, ub)
          IN IF ~server_send_command_ret(s1, alloc) THEN s2
             ELSE [s2 EXCEPT !.command[connection] = <<>>]
     ELSE s1

\* strncmp(response + rsp_length - 9, "\r\n#STOP\r\n", 9) == 0.  With fewer
\* than nine bytes accumulated the comparison starts before the buffer: oob
\* says whether the bytes found there match the head of the mark.
EndOfMessage(resp, oob) ==
  LET n == Len(resp) IN
  IF n >= 9 THEN SubSeq(resp, n - 8, n) = STOP_MARK
  ELSE oob /\ resp = SubSeq(STOP_MARK, 10 - n, 9)

\* the last MaxResponse bytes of the accumulated response
Tail9(resp) ==
  IF Len(resp) <= MaxResponse THEN resp
  ELSE SubSeq(resp, Len(resp) - MaxResponse + 1, Len(resp))

\* the for (;;) loop of server_serial_read_cb over the bytes that have arrived
RECURSIVE serial_read_loop(_, _, _)

\* a loop that forwards each chunk without its first byte
serial_read_loop_drop(s, data, ub) ==
  LET n == Min(Len(data), BufferSize) IN
  IF n <= 0 \/ s.crashed THEN s
  ELSE serial_read_loop(
         conn_write([s EXCEPT !.response = Tail9(@ \o Bytes(SubSeq(data, 1, n)))],
                    s.active_connection, SubSeq(data, 2, n), ub),
         SubSeq(data, n + 1, Len(data)), ub)

serial_read_loop(s, data, ub) ==
  LET n == Min(Len(data), BufferSize) IN
  IF n <= 0 \/ s.crashed THEN s
  ELSE serial_read_loop(
         conn_write([s EXCEPT !.response = Tail9(@ \o Bytes(SubSeq(data, 1, n)))],
                    s.active_connection, SubSeq(data, 1, n), ub),
         SubSeq(data, n + 1, Len(data)), ub)

\* a framer that looks for the end-of-message mark in the bytes of this read
\* event alone
server_serial_read_cb_slice(s, data, oob, ok, ub) ==
  IF s.active_connection = NULL THEN s
  ELSE LET s1 == serial_read_loop(s, data, ub) IN
       IF s1.crashed THEN s1
       ELSE IF EndOfMessage(Bytes(data), oob)
       THEN server_serial_command_done(s1, ok, ub)
       ELSE s1

\* a framer that keeps the bytes that nobody asked for in the response buffer
server_serial_read_cb_keep(s, data, oob, ok, ub) ==
  IF s.active_connection = NULL
  THEN [s EXCEPT !.response = Tail9(@ \o Bytes(data))]
  ELSE LET s1 == serial_read_loop(s, data, ub) IN
       IF s1.crashed THEN s1
       ELSE IF EndOfMessage(s1.response, oob)
       THEN server_serial_command_done(s1, ok, ub)
       ELSE s1

server_serial_read_cb(s, data, oob, ok, ub) ==
  IF s.active_connection = NULL THEN s
  ELSE LET s1 == serial_read_loop(s, data, ub) IN
       IF s1.crashed THEN s1
       ELSE IF EndOfMessage(s1.response, oob)
       THEN server_serial_command_done(s1, ok, ub)
       ELSE s1

\* ------------------------------------------------------------- startup

\* a switch that also knows 460800 baud
baud_speed_wide(baudrate) ==
  CASE baudrate = 50 -> "B50" [] baudrate = 75 -> "B75"
    [] baudrate = 110 -> "B110" [] baudrate = 134 -> "B134"
    [] baudrate = 150 -> "B150" [] baudrate = 200 -> "B200"
    [] baudrate = 300 -> "B300" [] baudrate = 600 -> "B600"
    [] baudrate = 1200 -> "B1200" [] baudrate = 1800 -> "B1800"
    [] baudrate = 2400 -> "B2400" [] baudrate = 4800 -> "B4800"
    [] baudrate = 9600 -> "B9600" [] baudrate = 19200 -> "B19200"
    [] baudrate = 38400 -> "B38400" [] baudrate = 57600 -> "B57600"
    [] baudrate = 115200 -> "B115200" [] baudrate = 230400 -> "B230400"
    [] baudrate = 460800 -> "B460800"
    [] OTHER -> "none"

\* the switch of start_server over the configured baudrate: the speed_t constant
\* the port is set to, "none" for the default case
baud_speed(baudrate) ==
  CASE baudrate = 50 -> "B50" [] baudrate = 75 -> "B75"
    [] baudrate = 110 -> "B110" [] baudrate = 134 -> "B134"
    [] baudrate = 150 -> "B150" [] baudrate = 200 -> "B200"
    [] baudrate = 300 -> "B300" [] baudrate = 600 -> "B600"
    [] baudrate = 1200 -> "B1200" [] baudrate = 1800 -> "B1800"
    [] baudrate = 2400 -> "B2400" [] baudrate = 4800 -> "B4800"
    [] baudrate = 9600 -> "B9600" [] baudrate = 19200 -> "B19200"
    [] baudrate = 38400 -> "B38400" [] baudrate = 57600 -> "B57600"
    [] baudrate = 115200 -> "B115200" [] baudrate = 230400 -> "B230400"
    [] OTHER -> "none"

\* what start_server leaves behind: whether event_base_dispatch was entered,
\* the speed the port was set to by tcsetattr, whether the listener exists, and
\* the value it returns
start_server_result(dispatch, speed, listener) ==
  [dispatch |-> dispatch, speed |-> speed, listener |-> listener,
   ret_value |-> FALSE]

\* e.device, e.socket, e.hook: "missing", "mistyped" or "string"; e.baudrate:
\* its key "missing", "mistyped" or "integer", and then its value; e.fails: the
\* system or library call that fails, "none" if none does
start_server(e) ==
  IF e.device \in {"missing", "mistyped"} THEN start_server_result(FALSE, "none", FALSE)
  ELSE IF e.baudrate.key \in {"missing", "mistyped"} THEN start_server_result(FALSE, "none", FALSE)
  ELSE IF e.fails \in {"open", "fcntl", "tcgetattr"} THEN start_server_result(FALSE, "none", FALSE)
  ELSE IF baud_speed(e.baudrate.value) = "none" THEN start_server_result(FALSE, "none", FALSE)
  ELSE IF e.fails = "tcsetattr" THEN start_server_result(FALSE, "none", FALSE)
  ELSE IF e.hook = "mistyped" THEN start_server_result(FALSE, baud_speed(e.baudrate.value), FALSE)
  ELSE IF e.socket \in {"missing", "mistyped"}
  THEN start_server_result(FALSE, baud_speed(e.baudrate.value), FALSE)
  ELSE IF e.fails = "bind" THEN start_server_result(FALSE, baud_speed(e.baudrate.value), FALSE)
  ELSE start_server_result(TRUE, baud_speed(e.baudrate.value), TRUE)

\* the options main has seen; ret: the value main returns from inside the
\* loop, -1 when the loop ends
no_options == [config_file |-> FALSE, server |-> FALSE, status_only |-> FALSE,
               log_perror |-> FALSE, ret |-> -1]

\* while ((c = getopt(argc, argv, "hc:sdf")) != EOF) switch (c) ...: "x" is an
\* option getopt does not know.  c is a plain char: where that type is
\* unsigned, the -1 of getopt becomes 255, differs from EOF and is taken for an
\* invalid option.
RECURSIVE getopt_loop(_, _, _, _)
getopt_loop(argv, i, o, char_signed) ==
  IF i > Len(argv)
  THEN IF char_signed THEN o ELSE [o EXCEPT !.ret = 1]
  ELSE CASE argv[i] = "h" -> [o EXCEPT !.ret = 1]
         [] argv[i] = "c" -> getopt_loop(argv, i + 1, [o EXCEPT !.config_file = TRUE], char_signed)
         [] argv[i] = "s" -> getopt_loop(argv, i + 1, [o EXCEPT !.status_only = TRUE], char_signed)
         [] argv[i] = "d" -> getopt_loop(argv, i + 1, [o EXCEPT !.server = TRUE], char_signed)
         [] argv[i] = "f" -> getopt_loop(argv, i + 1, [o EXCEPT !.log_perror = TRUE], char_signed)
         [] OTHER -> [o EXCEPT !.ret = 1]

\* main has returned ret_value
exited(ret_value, speed, listener) ==
  [stage |-> "exited", ret_value |-> ret_value, speed |-> speed, listener |-> listener]

\* main up to its return, or up to event_base_dispatch inside start_server
\* (stage "loop", with the ret_value main holds meanwhile)
main(e) ==
  LET o == getopt_loop(e.argv, 1, no_options, e.char_signed) IN
  IF o.ret # -1 THEN exited(o.ret, "none", FALSE)
  ELSE IF ~o.config_file THEN exited(1, "none", FALSE)
  ELSE IF e.fails = "parser" THEN exited(2, "none", FALSE)
  ELSE IF e.file = "unparsable" THEN exited(2, "none", FALSE)
  ELSE IF o.server
  THEN IF e.file = "no_server" THEN exited(2, "none", FALSE)
       ELSE LET r == start_server(e) IN
            IF r.dispatch
            THEN [stage |-> "loop", ret_value |-> 0, speed |-> r.speed,
                  listener |-> r.listener]
            ELSE exited(0, r.speed, r.listener)
  ELSE exited(0, "none", FALSE)

\* a broker started as "-c file -d" with a complete configuration
RunningEnv ==
  [argv |-> <<"c", "d">>, char_signed |-> TRUE, file |-> "ok", device |-> "string",
   baudrate |-> [key |-> "integer", value |-> 115200], hook |-> "missing", socket |-> "string", fails |-> "none"]

\* no client process is looked at
no_client ==
  [pc |-> "none", input |-> <<>>, closed |-> FALSE, buffer |-> <<>>, line |-> 0,
   received_header |-> FALSE, result |-> TRUE, response |-> <<>>,
   ret |-> FALSE, stream |-> <<>>, warned |-> <<>>, io_error |-> FALSE]

\* ------------------------------------------------------------- actions

\* the broker after start_server has set it up
ServerInit ==
  /\ alive = [a \in Addr |-> FALSE]
  /\ command = [a \in Addr |-> <<>>]
  /\ active_connection = NULL
  /\ cmd_queue = <<>>
  /\ cmd_queue_start = NULL /\ cmd_queue_tail = NULL
  /\ cmd_next = [a \in Tok |-> NULL]
  /\ serial_bev = TRUE
  /\ timer = FALSE
  /\ response = <<>>
  /\ crashed = FALSE
  /\ dev = <<>>
  /\ active_id = 0
  /\ owner = [t \in Tok |-> NULL]
  /\ unwritten = <<>>
  /\ nerr = 0
  /\ wrote = <<>>
  /\ out = [a \in Addr |-> <<>>]
  /\ env = RunningEnv
  /\ proc = main(env)

Init == ServerInit /\ client = no_client

Outcomes == {"crash", "lost"}

\* The environment's choices that the handler about to run can observe: a write
\* through a dangling active_connection, a reopen of the port, an allocation of
\* a queue record, a comparison that starts before the response buffer.
UbChoices ==
  IF \/ active_connection # NULL /\ ~alive[active_connection]
     \/ cmd_queue # <<>> /\ Head(cmd_queue).cmd_length > Len(Head(cmd_queue).command) + 1
  THEN Outcomes ELSE {"lost"}
OkChoices(resets) == IF resets THEN BOOLEAN ELSE {TRUE}
AllocChoices(fails) == IF fails /\ active_connection # NULL THEN BOOLEAN ELSE {TRUE}
OobChoices(k) == IF active_connection # NULL /\ Len(response) + k < 9
                 THEN BOOLEAN ELSE {FALSE}

\* malloc(sizeof(struct connection_context_t)): first fit
malloc_connection == CHOOSE a \in Addr : ~alive[a] /\ \A b \in 1..(a-1) : alive[b]

\* server_accept_conn_cb
Accept ==
  /\ ~crashed /\ \E a \in Addr : ~alive[a]
  /\ Commit([Cur EXCEPT !.alive[malloc_connection] = TRUE,
                        !.command[malloc_connection] = <<>>])

\* what the client connected at c sends: one command, "a\n", "b\n", ...
ClientCommand(c) == <<96 + c, 10>>

\* whether a read event that delivers data makes the connection at c submit a
\* command (which then needs a token)
Submits(c, data) ==
  /\ Len(command[c]) + Len(data) < CommandSize
  /\ (command[c] \o data)[Len(command[c]) + Len(data)] = 10

\* the commands submitted and not yet retired
Pending == Used(Cur)

\* server_connection_read_cb on a read event that delivers data; fails: whether
\* the allocation of a queue record can fail; cap: how many commands may be
\* pending at once
ConnReadUpTo(c, data, fails, cap) ==
  /\ ~crashed /\ alive[c]
  /\ Submits(c, data) => Cardinality(Pending) < cap
  /\ \E alloc \in AllocChoices(fails), ok \in OkChoices(~serial_bev) :
       Commit(server_connection_read_cb(Cur, c, data, alloc, ok, "lost"))

ConnRead(c, data, fails) == ConnReadUpTo(c, data, fails, MaxCmds)

\* server_connection_event_cb with BEV_EVENT_EOF or BEV_EVENT_ERROR
ConnClose(c) ==
  /\ ~crashed /\ alive[c]
  /\ Commit(connection_context_free(Cur, c))

\* server_serial_read_cb on a read event that delivers the next k bytes
SerialRead(k) ==
  /\ ~crashed /\ serial_bev /\ k \in 1..Len(dev)
  /\ \E oob \in OobChoices(k), ub \in UbChoices :
       Commit(server_serial_read_cb(
                [Cur EXCEPT !.dev = SubSeq(@, k + 1, Len(@))],
                SubSeq(dev, 1, k), oob, TRUE, ub))

\* server_serial_read_response_timeout_cb: the one-shot timer fires
Timeout ==
  /\ ~crashed /\ timer
  /\ \E ok \in OkChoices(TRUE), ub \in UbChoices :
       Commit(server_serial_reset([Cur EXCEPT !.timer = FALSE], TRUE, ok, ub))

\* server_serial_event_cb with BEV_EVENT_EOF or BEV_EVENT_ERROR
SerialError ==
  /\ ~crashed /\ serial_bev
  /\ \E ok \in OkChoices(TRUE), ub \in UbChoices :
       Commit(server_serial_reset(Cur, TRUE, ok, ub))

\* what a serial read event may deliver: all the device has sent, or, when
\* that starts at the beginning of a reply, its first SplitPoint bytes
ReadSizes ==
  {Len(dev)} \cup (IF Len(dev) % Len(DeviceReply) = 0 THEN {SplitPoint} ELSE {})

\* The broker with whole commands from its clients and the device's output
\* arriving either all at once or cut inside the end-of-message mark.
Next ==
  \/ Accept
  \/ \E c \in Addr : ConnRead(c, ClientCommand(c), TRUE)
  \/ \E c \in Addr : ConnClose(c)
  \/ \E k \in ReadSizes : SerialRead(k)
  \/ Timeout
  \/ SerialError

Spec == Init /\ [][Next]_vars

\* the timer fires and the reset it starts reopens the port
TimeoutReopens ==
  /\ ~crashed /\ timer
  /\ \E ub \in UbChoices :
       Commit(server_serial_reset([Cur EXCEPT !.timer = FALSE], TRUE, TRUE, ub))

\* The same under the scheduling of the event loop and of the port: a pending
\* timeout event is run, and of the resets that the timer starts again and
\* again, one reopens the port.
SpecFair == Spec /\ WF_vars(Timeout) /\ SF_vars(TimeoutReopens)

\* The framer under every way of cutting the device's output into read events,
\* with clients that stay and allocations that succeed.
NextFramer ==
  \/ Accept
  \/ \E c \in Addr : ConnRead(c, ClientCommand(c), FALSE)
  \/ \E k \in 1..Len(dev) : SerialRead(k)

SpecFramer == Init /\ [][NextFramer]_vars

\* The command reader under what one client can send: a run of bytes that
\* nearly fills the accumulator, single bytes after it, a newline, a run longer
\* than the accumulator, and two commands in one segment.
Run(n) == [i \in 1..n |-> 120]
LongRun == Run(CommandSize - 3)
BigRun == Run(CommandSize + 1)
Pipelined == <<97, 10, 98>>
PipelinedBoth == <<97, 10, 98, 10>>
IntakeConn == CHOOSE a \in Addr : \A b \in Addr : a <= b
IntakeData ==
  IF command[IntakeConn] = <<>>
  THEN {LongRun, BigRun, Pipelined, PipelinedBoth, <<10>>}
  ELSE IF Len(command[IntakeConn]) >= Len(LongRun) THEN {<<120>>, <<10>>}
  ELSE {<<10>>}

NextIntake ==
  \/ Accept
  \/ \E data \in IntakeData : ConnRead(IntakeConn, data, FALSE)
  \/ \E k \in {Len(dev)} : SerialRead(k)

SpecIntake == Init /\ [][NextIntake]_vars

\* The command reader with a client that overruns its accumulator while other
\* clients have commands active and queued: the first client sends runs of
\* bytes without a newline, or a bare newline as a command of its own.
OverflowData ==
  IF command[IntakeConn] = <<>> THEN {LongRun, BigRun, <<10>>} ELSE {<<120>>}

NextOverflow ==
  \/ Accept
  \/ \E data \in OverflowData : ConnRead(IntakeConn, data, FALSE)
  \/ \E c \in Addr \ {IntakeConn} : ConnRead(c, ClientCommand(c), FALSE)
  \/ \E k \in {Len(dev)} : SerialRead(k)

SpecOverflow == Init /\ [][NextOverflow]_vars

\* what a serial read event may deliver here: all the device has sent, its
\* first SplitPoint bytes, or what is left of a reply that was cut before
TailSizes == {Len(dev), SplitPoint, Len(dev) % Len(DeviceReply)}

\* The framer with clients that may leave while the device is answering, and
\* read events that end inside a reply or at its end.
NextTail ==
  \/ Accept
  \/ \E c \in Addr : ConnRead(c, ClientCommand(c), FALSE)
  \/ \E c \in Addr : ConnClose(c)
  \/ \E k \in TailSizes : SerialRead(k)

SpecTail == Init /\ [][NextTail]_vars

\* The queue at its longest: clients that stay, replies that arrive whole, a
\* port that stays open, and up to LongCmds commands pending.
NextFifo ==
  \/ Accept
  \/ \E c \in Addr : ConnReadUpTo(c, ClientCommand(c), FALSE, LongCmds)
  \/ \E k \in {Len(dev)} : SerialRead(k)

SpecFifo == Init /\ [][NextFifo]_vars

\* The scheduler with a queue that grows to two records and more: clients that
\* stay, replies that arrive whole, and a timer that may expire.
NextQueue ==
  \/ Accept
  \/ \E c \in Addr : ConnReadUpTo(c, ClientCommand(c), FALSE, DeepCmds)
  \/ \E k \in {Len(dev)} : SerialRead(k)
  \/ Timeout

SpecQueue == Init /\ [][NextQueue]_vars

\* The scheduler when the allocation of a queue record may fail: clients that
\* never leave by themselves, replies that arrive whole, a port that stays
\* open.
NextAlloc ==
  \/ Accept
  \/ \E c \in Addr : ConnReadUpTo(c, ClientCommand(c), TRUE, DeepCmds)
  \/ \E k \in {Len(dev)} : SerialRead(k)

SpecAlloc == Init /\ [][NextAlloc]_vars

\* The scheduler under commands that hold a NUL byte: each client sends "a\n"
\* or "a", NUL, "\n" (a, b, ... by client), replies arrive whole, the port
\* stays open and allocations succeed.
NulCommand(c) == <<96 + c, 0, 10>>
SubmitData(c) == {ClientCommand(c), NulCommand(c)}

NextSubmit ==
  \/ Accept
  \/ \E c \in Addr : \E data \in SubmitData(c) : ConnRead(c, data, FALSE)
  \/ \E c \in Addr : ConnClose(c)
  \/ \E k \in {Len(dev)} : SerialRead(k)

SpecSubmit == Init /\ [][NextSubmit]_vars

\* The start of the process under the ways it can be invoked and configured:
\* option lists with and without the required ones, a configuration file that
\* does not parse or lacks a section or a key or has one of the wrong type,
\* baudrates inside and outside the table, and one failing call.
ArgvSamples ==
  {<<"c", "d">>, <<"c", "d", "f">>, <<"d">>, <<"h">>, <<"c", "x", "d">>,
   <<"c", "s">>}
BaudSamples ==
  {50, 75, 110, 134, 150, 200, 300, 600, 1200, 1800, 2400, 4800, 9600, 19200,
   38400, 57600, 115200, 230400, 0, 9601, 460800, -9600}
BaudrateSamples ==
  {[key |-> k, value |-> 0] : k \in {"missing", "mistyped"}}
    \cup {[key |-> "integer", value |-> b] : b \in BaudSamples}
KeySamples == {"missing", "mistyped", "string"}
FailSamples == {"none", "parser", "open", "fcntl", "tcgetattr", "tcsetattr", "bind"}

InitStartup ==
  /\ alive = [a \in Addr |-> FALSE]
  /\ command = [a \in Addr |-> <<>>]
  /\ active_connection = NULL
  /\ cmd_queue = <<>>
  /\ cmd_queue_start = NULL /\ cmd_queue_tail = NULL
  /\ cmd_next = [a \in Tok |-> NULL]
  /\ serial_bev = FALSE
  /\ timer = FALSE
  /\ response = <<>>
  /\ crashed = FALSE
  /\ dev = <<>>
  /\ active_id = 0
  /\ owner = [t \in Tok |-> NULL]
  /\ unwritten = <<>>
  /\ nerr = 0
  /\ wrote = <<>>
  /\ out = [a \in Addr |-> <<>>]
  /\ env \in [argv : ArgvSamples, char_signed : BOOLEAN,
              file : {"unparsable", "no_server", "ok"},
              device : KeySamples,
              baudrate : BaudrateSamples,
              hook : KeySamples, socket : KeySamples, fails : FailSamples]
  /\ proc = [stage |-> "init", ret_value |-> 0, speed |-> "none", listener |-> FALSE]
  /\ client = no_client

\* main runs: it returns, or it enters the event loop with the port open
Main ==
  /\ proc.stage = "init"
  /\ proc' = main(env)
  /\ serial_bev' = (proc'.stage = "loop")
  /\ UNCHANGED <<alive, command, active_connection, cmd_queue, timer, response,
                 crashed, dev, active_id, owner, unwritten, nerr, wrote, out, env,
                 cmd_queue_start, cmd_queue_tail, cmd_next, client>>

\* event_base_dispatch returns: start_server cleans up and main returns
DispatchReturns ==
  /\ proc.stage = "loop"
  /\ proc' = exited(proc.ret_value, proc.speed, proc.listener)
  /\ serial_bev' = FALSE
  /\ UNCHANGED <<alive, command, active_connection, cmd_queue, timer, response,
                 crashed, dev, active_id, owner, unwritten, nerr, wrote, out, env,
                 cmd_queue_start, cmd_queue_tail, cmd_next, client>>

NextStartup == Main \/ DispatchReturns

SpecStartup == InitStartup /\ [][NextStartup]_vars

\* ------------------------------------------------------------ the client

MAX_RESPONSE_LINES == 128
sizeof_buffer == 4096

\* "#START\n", "#ERROR\n", "#STOP\n"
START_LINE == <<35, 83, 84, 65, 82, 84, 10>>
ERROR_LINE == <<35, 69, 82, 82, 79, 82, 10>>
STOP_LINE == <<35, 83, 84, 79, 80, 10>>

\* strncmp(buffer, literal, sizeof(buffer)) == 0: the buffer is zero beyond
\* its line, so that the comparison is one of C strings
line_is(buffer, literal) == strdup(buffer) = literal

\* return value: the locals die
client_return(c, value) ==
  [c EXCEPT !.pc = "returned", !.ret = value, !.buffer = <<>>]

\* free(*response); *response = NULL; return false
client_fail(c) == client_return([c EXCEPT !.response = <<>>], FALSE)

\* the end of the function: a NULL response is a failure. A response that was
\* allocated holds a line, hence a newline: it is NULL iff it is empty here.
client_finish(c) == client_return(c, c.result /\ c.response # <<>>)

\* the test of the for loop before its next pass
client_for(c) == IF c.line < MAX_RESPONSE_LINES THEN c ELSE client_finish(c)

\* one pass of the loop in which read() delivers a byte
client_loop(c) ==
  IF Len(c.buffer) >= sizeof_buffer THEN client_fail(c)
  ELSE LET last == Head(c.input)
           c1 == [c EXCEPT !.input = Tail(@)]
           buffer == Append(c.buffer, last)
           c2 == [c1 EXCEPT !.line = @ + 1, !.buffer = <<>>]
       IN IF last = 13 THEN c1
          ELSE IF last # 10 THEN [c1 EXCEPT !.buffer = buffer]
          ELSE IF line_is(buffer, START_LINE)
          THEN client_for([c2 EXCEPT !.received_header = TRUE])
          ELSE IF line_is(buffer, ERROR_LINE)
          THEN client_for([c2 EXCEPT !.received_header = TRUE,
                                     !.result = FALSE])
          ELSE IF line_is(buffer, STOP_LINE)
          THEN client_finish(c2)
          ELSE IF ~c.received_header
          THEN client_for([c2 EXCEPT !.warned = Append(@, buffer)])
          ELSE client_for([c2 EXCEPT !.response = @ \o buffer])

\* the passes of the loop once the server has closed the socket: each read()
\* returns 0 and the line grows by one zero byte, until it fills the buffer
client_eof(c) == client_fail([c EXCEPT !.io_error = TRUE])

\* what is left alone by the steps of a client process
Broker ==
  <<alive, command, active_connection, cmd_queue, serial_bev, timer, response,
    crashed, dev, active_id, owner, unwritten, nerr, wrote, out, env, proc,
    cmd_queue_start, cmd_queue_tail, cmd_next>>

\* the write of the command, which may fail
ClientCall ==
  /\ client.pc = "call"
  /\ \E ok \in BOOLEAN :
       client' = IF ok THEN [client EXCEPT !.pc = "reading"]
                 ELSE client_return([client EXCEPT !.io_error = TRUE], FALSE)
  /\ UNCHANGED Broker

ClientRead ==
  /\ client.pc = "reading"
  /\ client.input # <<>> \/ Len(client.buffer) >= sizeof_buffer
  /\ client' = client_loop(client)
  /\ UNCHANGED Broker

\* read() fails
ClientReadFails ==
  /\ client.pc = "reading"
  /\ client' = client_fail([client EXCEPT !.io_error = TRUE])
  /\ UNCHANGED Broker

ClientEof ==
  /\ client.pc = "reading" /\ client.input = <<>> /\ client.closed
  /\ client' = client_eof(client)
  /\ UNCHANGED Broker

\* The parser under what a socket can deliver: every sequence of up to
\* MaxLines lines among the three marks and two body lines ("a\r\n", "b\n"),
\* and envelopes whose body reaches the limit of lines; the server closes the
\* socket after the last byte or leaves it open.
MaxLines == 4
LineSamples ==
  {<<35, 83, 84, 65, 82, 84, 13, 10>>, <<35, 69, 82, 82, 79, 82, 13, 10>>,
   <<35, 83, 84, 79, 80, 13, 10>>, <<97, 13, 10>>, <<98, 10>>}

RECURSIVE Flatten(_)
Flatten(seqs) ==
  IF seqs = <<>> THEN <<>> ELSE Head(seqs) \o Flatten(Tail(seqs))

\* "#START\n", n times "a\n", "#STOP\n"
LongEnvelope(n) ==
  START_LINE \o [i \in 1..(2 * n) |-> IF i % 2 = 1 THEN 97 ELSE 10] \o STOP_LINE

StreamSamples ==
  {Flatten(ls) : ls \in UNION {[1..k -> LineSamples] : k \in 0..MaxLines}}
    \cup {LongEnvelope(n) : n \in (MAX_RESPONSE_LINES - 2)..MAX_RESPONSE_LINES}

InitClient ==
  /\ ServerInit
  /\ \E stream \in StreamSamples : \E closed \in BOOLEAN :
       client = [no_client EXCEPT !.pc = "call", !.input = stream,
                                  !.stream = stream, !.closed = closed]

NextClient == ClientCall \/ ClientRead \/ ClientReadFails \/ ClientEof

SpecClient == InitClient /\ [][NextClient]_vars

\* ------------------------------------------------------------ properties

\* the commands the device has been given and has not finished answering
InFlight == {dev[i].tok : i \in DOMAIN dev}

\* C1: every command written to the serial port is the oldest of the commands
\* submitted and not yet written (dispatch in submission order across all
\* connections).
C1_FifoDispatch ==
  \A i \in DOMAIN wrote : Head(wrote[i].pending) = wrote[i].tok

\* C2: at most one command is in flight on the device.
C2_OneInFlight == Cardinality(InFlight) <= 1

\* C3: every byte the device sends in answer to a command is written only to
\* the connection that submitted that command.
C3_ReplyToRequester ==
  \A c \in Addr : \A i \in DOMAIN out[c] : ~out[c][i].syn => out[c][i].who = c

\* C4: a command written to the device yields exactly one outcome on its
\* submitter's connection; in particular it never yields more than one
\* "#ERROR\r\n#STOP\r\n" envelope.
C4_OneOutcome ==
  (active_id # 0 /\ active_id \notin Range(unwritten)) => nerr <= 1

\* C5: the response timer is armed iff the active slot is occupied.
C5_TimerIffActive == timer <=> active_connection # NULL

\* the active slot holds a connection that is open
ActiveOpen == active_connection # NULL /\ alive[active_connection]

\* complete() has run in this step: the response buffer is empty, and the head
\* of the queue has become active and has been written to the device (once), or
\* the queue was empty and the slot and the timer are cleared
Completed ==
  /\ response' = <<>>
  /\ IF cmd_queue # <<>>
     THEN /\ active_connection' = Head(cmd_queue).connection
          /\ cmd_queue' = Tail(cmd_queue)
          /\ Len(wrote') = 1
          /\ wrote'[1].bytes = SubSeq(Head(cmd_queue).command, 1, Head(cmd_queue).cmd_length)
          /\ Bytes(dev') = DeviceReply
          /\ timer'
     ELSE /\ active_connection' = NULL
          /\ cmd_queue' = <<>>
          /\ wrote' = <<>>
          /\ ~timer'

\* C6: when the response timer expires or the serial port raises an error/EOF
\* event while a command of an open connection is active, exactly
\* "#ERROR\r\n#STOP\r\n" is written to the active connection and nothing to any
\* other, the port is reset (what the device had sent is dropped), and after a
\* successful reopen the active command is completed: the head of the queue
\* becomes active and is written to the device, or the slot becomes empty.
C6_DeviceError ==
  [][((Timeout \/ SerialError) /\ ActiveOpen) =>
       /\ Bytes(out'[active_connection]) = ERROR_REPLY
       /\ \A i \in DOMAIN out'[active_connection] : out'[active_connection][i].syn
       /\ \A c \in Addr \ {active_connection} : out'[c] = <<>>
       /\ serial_bev' => Completed
       /\ ~serial_bev' => dev' = <<>>]_vars

\* a device error with a queued command behind the failed one: the error reply
\* has been written, the port is open again and the queued command is on the wire
C6_Witness ==
  /\ serial_bev /\ Len(wrote) = 1 /\ active_connection # NULL
  /\ \E c \in Addr : alive[c] /\ Bytes(out[c]) = ERROR_REPLY /\ out[c][1].syn

\* C7: while a command of an open connection is active, the bytes a serial read
\* event delivers are written to the active connection as they are and in their
\* order, and to no other connection.
C7_VerbatimForward ==
  [][\A k \in 1..Len(dev) :
       (SerialRead(k) /\ ActiveOpen) =>
         /\ Bytes(out'[active_connection]) = Bytes(SubSeq(dev, 1, k))
         /\ \A i \in 1..k : ~out'[active_connection][i].syn
         /\ \A c \in Addr \ {active_connection} : out'[c] = <<>>]_vars

\* a read event that ended inside the reply: its SplitPoint bytes are with the
\* connection that asked
C7_Witness ==
  \E c \in Addr :
    /\ alive[c] /\ active_connection = c
    /\ Len(out[c]) = SplitPoint
    /\ Bytes(out[c]) = SubSeq(DeviceReply, 1, SplitPoint)
    /\ \A i \in DOMAIN out[c] : out[c][i].who = c

\* C8: the end-of-message mark is looked for in the accumulated reply: however
\* the reply is cut into read events, the read that delivers its last byte
\* completes the command, once, and no earlier read does.
C8_EndOfMessage ==
  [][\A k \in 1..Len(dev) :
       (SerialRead(k) /\ active_connection # NULL) =>
         IF k = Len(dev)
         THEN Completed
         ELSE /\ active_connection' = active_connection
              /\ cmd_queue' = cmd_queue
              /\ wrote' = <<>>
              /\ response' = Tail9(response \o Bytes(SubSeq(dev, 1, k)))
              /\ timer' = timer]_vars

\* a reply whose mark was cut in two: the last read brought fewer than nine
\* bytes and the command is complete
C8_Witness ==
  /\ response = <<>> /\ dev = <<>> /\ active_connection = NULL /\ ~timer
  /\ \E c \in Addr : alive[c] /\ Len(out[c]) \in 1..8 /\ ~out[c][1].syn

\* the accumulator of the connection at c after a read event that brings data:
\* bufferevent_read takes no more than the room that is left
Accumulated(c, data) ==
  SubSeq(command[c] \o data, 1, Min(Len(command[c]) + Len(data), CommandSize))

\* in this step the bytes buf have been passed to the scheduler as one command
\* of the connection at c: written to the device if the slot was empty, put at
\* the tail of the queue otherwise
Submitted(c, buf) ==
  IF active_connection = NULL
  THEN /\ active_connection' = c
       /\ Len(wrote') = 1 /\ wrote'[1].bytes = buf
  ELSE /\ Len(cmd_queue') = Len(cmd_queue) + 1
       /\ cmd_queue'[Len(cmd_queue')].connection = c
       /\ SubSeq(cmd_queue'[Len(cmd_queue')].command, 1,
                 cmd_queue'[Len(cmd_queue')].cmd_length) = buf

\* in this step nothing has been passed to the scheduler
NothingSubmitted == wrote' = <<>> /\ cmd_queue' = cmd_queue

OneCommand(bytes) ==
  /\ bytes # <<>> /\ bytes[Len(bytes)] = 10
  /\ \A i \in 1..(Len(bytes) - 1) : bytes[i] # 10

\* C10: every submission to the scheduler is one newline-terminated command,
\* the bytes up to and including its newline and no byte after it.
C10_OneCommandPerSubmission ==
  /\ \A i \in DOMAIN wrote : OneCommand(wrote[i].bytes)
  /\ \A i \in DOMAIN cmd_queue :
       OneCommand(SubSeq(cmd_queue[i].command, 1, cmd_queue[i].cmd_length))

\* in this step no connection has been written to
NoReply == \A c \in Addr : out'[c] = <<>>

\* C11: when a read brings a connection's accumulator to 64 bytes with no
\* newline among them, that connection is closed, no reply is written, nothing
\* is submitted, and the other connections, the queue, the port and a command
\* in flight for another connection are as they were.
C11_OverflowCloses ==
  [][\A data \in OverflowData :
       (/\ ConnRead(IntakeConn, data, FALSE)
        /\ Len(Accumulated(IntakeConn, data)) = CommandSize
        /\ \A i \in 1..CommandSize : Accumulated(IntakeConn, data)[i] # 10) =>
         /\ ~alive'[IntakeConn]
         /\ NoReply /\ NothingSubmitted
         /\ \A c \in Addr \ {IntakeConn} :
              alive'[c] = alive[c] /\ command'[c] = command[c]
         /\ active_connection' =
              IF active_connection = IntakeConn THEN NULL ELSE active_connection
         /\ <<serial_bev, timer, response, dev, crashed>>' =
              <<serial_bev, timer, response, dev, crashed>>]_vars

\* the overrunning client is gone while another client's command is active
\* and in flight, and the command it had queued before is still in the queue
C11_Witness ==
  /\ ~alive[IntakeConn]
  /\ active_connection \notin {NULL, IntakeConn} /\ alive[active_connection]
  /\ \E i \in DOMAIN cmd_queue : cmd_queue[i].connection = IntakeConn
  /\ dev # <<>>

\* the next k bytes of the device's output end with "\r\n#STOP\r\n"
EndsReply(k) ==
  k >= Len(STOP_MARK) /\ Bytes(SubSeq(dev, k - Len(STOP_MARK) + 1, k)) = STOP_MARK

\* C12: when the active client has disconnected with a command queued behind
\* its own, the arrival of the end of the device's reply dispatches the queued
\* command: the head of the queue becomes active and is written to the device,
\* and the reply bytes of the client that left go to no connection.
C12_DispatchAfterDisconnect ==
  [][\A k \in 1..Len(dev) :
       (/\ SerialRead(k) /\ EndsReply(k)
        /\ active_connection = NULL /\ cmd_queue # <<>>) =>
         /\ NoReply
         /\ active_connection' = Head(cmd_queue).connection
         /\ cmd_queue' = Tail(cmd_queue)
         /\ Len(wrote') = 1 /\ wrote'[1].tok = Head(cmd_queue).tok]_vars

\* C13: the active slot never holds a connection that has been closed (a
\* queued command of a closed connection is never made the active one).
C13_ActiveIsOpen == active_connection # NULL => alive[active_connection]

\* C14: no reply is written through a closed connection, so no sequence of
\* protocol and device errors makes the process die on an invalid access.
C14_NeverCrashes == ~crashed

\* C15: closing a connection empties the active slot iff the slot holds that
\* connection, and leaves the queue as it is: the records of the closed
\* connection stay in their places.
C15_CloseKeepsQueue ==
  [][\A c \in Addr :
       ConnClose(c) =>
         /\ ~alive'[c]
         /\ active_connection' = IF active_connection = c THEN NULL ELSE active_connection
         /\ cmd_queue' = cmd_queue]_vars

\* a connection has been closed, the slot it held is empty, and the record it
\* had queued is still in the queue
C15_Witness ==
  /\ active_connection = NULL /\ wrote = <<>>
  /\ \E i \in DOMAIN cmd_queue :
       ~alive[cmd_queue[i].connection] /\ owner[cmd_queue[i].tok] = NULL

\* C16: a command that has been written to the device stays the one in flight
\* until its end of message, a timeout or a serial error: whenever a command is
\* written, the device has no other command left to answer (a disconnect of
\* the submitter lets no other command out early).
C16_NoEarlyDispatch ==
  \A i \in DOMAIN wrote : \A j \in DOMAIN dev : dev[j].tok = wrote[Len(wrote)].tok

\* C17: while the active slot is empty, the bytes a serial read event delivers
\* are dropped: no connection is written to and nothing of the broker's state
\* changes, so that what follows is what would follow had they never come.
C17_UnsolicitedDiscarded ==
  [][\A k \in 1..Len(dev) :
       (SerialRead(k) /\ active_connection = NULL) =>
         /\ NoReply /\ wrote' = <<>>
         /\ dev' = SubSeq(dev, k + 1, Len(dev))
         /\ <<alive, command, active_connection, cmd_queue, serial_bev, timer,
              response, crashed>>' =
            <<alive, command, active_connection, cmd_queue, serial_bev, timer,
              response, crashed>>]_vars

\* the reply to a command whose client has left has been read and dropped: the
\* port is open and silent, the slot is empty, the timer of that command is
\* still pending
C17_Witness ==
  /\ active_connection = NULL /\ serial_bev /\ timer /\ dev = <<>>
  /\ wrote = <<>> /\ \A c \in Addr : out[c] = <<>>

\* C18: the commands of one connection are written to the device, and so
\* answered, in the order in which that connection submitted them.
C18_PerConnectionOrder ==
  \A i \in DOMAIN wrote :
    \A j, k \in DOMAIN wrote[i].pending :
      (j < k /\ wrote[i].pending[k] = wrote[i].tok /\ owner[wrote[i].tok] # NULL)
        => owner[wrote[i].pending[j]] # owner[wrote[i].tok]

\* the step is a reset of the port after a device error
DeviceErrorStep == Timeout \/ SerialError

\* C19: after a successful reset with nothing queued the scheduler is in its
\* initial state: slot empty, queue empty, response buffer empty, timer not
\* pending, port open and silent; what follows is therefore what follows on a
\* broker that has just started.
C19_ResetIsFresh ==
  [][(DeviceErrorStep /\ cmd_queue = <<>> /\ serial_bev' /\ ~crashed') =>
       /\ active_connection' = NULL /\ cmd_queue' = <<>>
       /\ response' = <<>> /\ ~timer' /\ dev' = <<>>
       /\ wrote' = <<>>
       /\ active_id' = 0 /\ unwritten' = <<>> /\ nerr' = 0
       /\ alive' = alive /\ command' = command]_vars

\* a command has been failed by a reset that reopened the port, with nothing
\* queued: its client has the error reply and the scheduler is idle
C19_Witness ==
  /\ active_connection = NULL /\ cmd_queue = <<>> /\ response = <<>>
  /\ ~timer /\ serial_bev /\ dev = <<>>
  /\ \E c \in Addr : alive[c] /\ Bytes(out[c]) = ERROR_REPLY

\* C20: when the port cannot be reopened the reset arms the timer again and
\* ends without completing: the active slot, the queue and the response buffer
\* are as they were, no command is written, the port stays absent, and the
\* pending timer will run the reset again.
C20_ResetFailureRetries ==
  [][(DeviceErrorStep /\ ~serial_bev' /\ ~crashed') =>
       /\ timer'
       /\ active_connection' = active_connection
       /\ cmd_queue' = cmd_queue
       /\ response' = response
       /\ wrote' = <<>> /\ dev' = <<>>]_vars

\* a reset has failed to reopen the port with a command active and another
\* queued: the client has the error reply, both commands are where they were
\* and the timer is pending
C20_Witness ==
  /\ ~serial_bev /\ timer /\ cmd_queue # <<>>
  /\ active_connection # NULL /\ alive[active_connection]
  /\ Bytes(out[active_connection]) = ERROR_REPLY

\* C21: a command is written to the serial port only when the port is open.
\* When a command is dispatched while the port is absent, the port is reset
\* first, without failing anybody: if the reopen succeeds the command is written
\* to the new port and no client is written to; if it fails the command is not
\* written and "#ERROR\r\n#STOP\r\n" is written to the active connection.
C21_WriteOnlyWhenOpen ==
  [][/\ wrote' # <<>> => serial_bev'
     /\ \A c \in Addr :
          (/\ ConnRead(c, ClientCommand(c), TRUE)
           /\ active_connection = NULL /\ ~serial_bev) =>
            /\ active_connection' = c /\ timer'
            /\ IF serial_bev'
               THEN /\ Len(wrote') = 1 /\ wrote'[1].bytes = ClientCommand(c)
                    /\ NoReply
               ELSE /\ wrote' = <<>> /\ dev' = <<>>
                    /\ Bytes(out'[c]) = ERROR_REPLY
                    /\ \A d \in Addr \ {c} : out'[d] = <<>>]_vars

\* a command was dispatched while the port was absent and the reopen failed:
\* it is still unwritten and its client has the error reply
C21_Witness ==
  /\ ~serial_bev /\ wrote = <<>> /\ nerr = 1
  /\ active_id # 0 /\ active_id \in Range(unwritten)
  /\ active_connection # NULL /\ alive[active_connection]
  /\ Bytes(out[active_connection]) = ERROR_REPLY

\* C22: between reads every open connection holds fewer than 64 bytes in its
\* accumulator: a read that brings it to 64 closes the connection (whose
\* accumulator is gone with it) instead of leaving it with 64 bytes or more.
C22_AccumulatorBelow64 ==
  \A c \in Addr : IF alive[c] THEN cmd_length(Cur, c) < CommandSize
                               ELSE cmd_length(Cur, c) = 0

\* an open connection holds 63 bytes, the most that can be held
C22_Witness ==
  alive[IntakeConn] /\ cmd_length(Cur, IntakeConn) = CommandSize - 1

\* C23: the exit code is 1 on misuse of the command line (-h, an unknown
\* option, no -c), 2 on every configuration or startup failure of the broker
\* (a file that does not parse, no server section, a missing or mistyped
\* device, baudrate or socket key, a baudrate outside the table, a failing
\* call such as opening the device or binding the socket), and 0 only after
\* the broker has run and shut down.
C23_ExitCodes ==
  LET misuse == \/ \E i \in DOMAIN env.argv : env.argv[i] \in {"h", "x"}
                \/ "c" \notin Range(env.argv)
      broker == "d" \in Range(env.argv)
      failure == \/ env.file # "ok"
                 \/ env.device # "string" \/ env.socket # "string"
                 \/ env.baudrate.key # "integer"
                 \/ env.baudrate.value \notin
                      {50, 75, 110, 134, 150, 200, 300, 600, 1200, 1800, 2400,
                       4800, 9600, 19200, 38400, 57600, 115200, 230400}
                 \/ env.fails # "none"
  IN proc.stage = "exited" =>
       /\ misuse => proc.ret_value = 1
       /\ (~misuse /\ broker /\ failure) => proc.ret_value = 2
       /\ (broker /\ proc.ret_value = 0) => proc.listener

\* C24: the port is set to a speed only for a baudrate in {50, 75, 110, 134,
\* 150, 200, 300, 600, 1200, 1800, 2400, 4800, 9600, 19200, 38400, 57600,
\* 115200, 230400}, and then to the speed of that name; with any other integer
\* the start fails before the event loop is entered and before the client
\* socket is created.
C24_BaudTable ==
  LET table == {50, 75, 110, 134, 150, 200, 300, 600, 1200, 1800, 2400, 4800,
                9600, 19200, 38400, 57600, 115200, 230400}
      integer == env.baudrate.key = "integer"
      reaches == /\ env.argv \in {<<"c", "d">>, <<"c", "d", "f">>}
                 /\ env.char_signed /\ env.file = "ok" /\ env.device = "string"
                 /\ integer /\ env.fails \in {"none", "bind"}
  IN /\ proc.speed # "none" => (integer /\ env.baudrate.value \in table)
     /\ (integer /\ env.baudrate.value \notin table) =>
          (proc.stage # "loop" /\ ~proc.listener /\ ~serial_bev)
     /\ (proc.stage # "init" /\ reaches) =>
          proc.speed = IF env.baudrate.value \in table
                       THEN "B" \o ToString(env.baudrate.value)
                       ELSE "none"

\* a start with baudrate 460800 and nothing else wrong has ended with the port
\* not set up and no client socket
C24_Witness ==
  /\ proc.stage = "exited" /\ proc.speed = "none" /\ ~proc.listener
  /\ env.baudrate = [key |-> "integer", value |-> 460800]
  /\ env.argv = <<"c", "d">> /\ env.char_signed /\ env.file = "ok"
  /\ env.device = "string" /\ env.socket = "string" /\ env.hook = "string"
  /\ env.fails = "none"

\* C25: a submission into an empty slot makes the submitter active, arms the
\* timer and writes the command to the serial port, and leaves the queue as it
\* is; a submission while the slot is occupied, by the submitter or by another
\* connection, appends to the queue one record that holds the connection, a
\* copy of the command and its length, and leaves the slot, the timer and the
\* serial output as they are.
C25_Submit ==
  [][\A c \in Addr : \A data \in SubmitData(c) :
       ConnRead(c, data, FALSE) =>
         IF active_connection = NULL
         THEN /\ active_connection' = c /\ timer'
              /\ Len(wrote') = 1 /\ wrote'[1].bytes = command[c] \o data
              /\ cmd_queue' = cmd_queue
         ELSE /\ Len(cmd_queue') = Len(cmd_queue) + 1
              /\ SubSeq(cmd_queue', 1, Len(cmd_queue)) = cmd_queue
              /\ cmd_queue'[Len(cmd_queue')].connection = c
              /\ cmd_queue'[Len(cmd_queue')].command = command[c] \o data
              /\ cmd_queue'[Len(cmd_queue')].cmd_length = Len(command[c] \o data)
              /\ active_connection' = active_connection /\ timer' = timer
              /\ wrote' = <<>> /\ dev' = dev]_vars

\* C26: complete() empties the response accumulator and cancels the timer.
\* With a non-empty queue it removes the head record and no other, makes that
\* record's connection the active one, arms the timer again and writes that
\* record's command to the serial port, and the remaining records keep their
\* order; with an empty queue the slot becomes empty and the timer stays
\* cancelled.  (complete() runs when a read brings the end of a reply, and
\* after a reset that fails the active command and reopens the port.)
C26_Complete ==
  [][(/\ ~crashed'
      /\ \/ DeviceErrorStep /\ serial_bev'
         \/ \E k \in 1..Len(dev) :
              SerialRead(k) /\ active_connection # NULL /\ EndsReply(k)) =>
       /\ response' = <<>>
       /\ IF cmd_queue # <<>>
          THEN /\ active_connection' = Head(cmd_queue).connection
               /\ active_id' = Head(cmd_queue).tok
               /\ cmd_queue' = Tail(cmd_queue)
               /\ timer'
               /\ Len(wrote') = 1 /\ wrote'[1].tok = Head(cmd_queue).tok
               /\ wrote'[1].bytes =
                    SubSeq(Head(cmd_queue).command, 1, Head(cmd_queue).cmd_length)
          ELSE /\ active_connection' = NULL /\ cmd_queue' = <<>>
               /\ ~timer' /\ wrote' = <<>>]_vars

\* the end of a reply has come with two records queued: the reply is with its
\* client, the first record is active and written, the second is still queued
C26_Witness ==
  /\ response = <<>> /\ timer /\ cmd_queue # <<>>
  /\ Len(wrote) = 1 /\ active_id = wrote[1].tok
  /\ wrote[1].pending = <<active_id>> \o [i \in DOMAIN cmd_queue |-> cmd_queue[i].tok]
  /\ \E c \in Addr : Bytes(out[c]) = DeviceReply

\* C27: a reset with fail_active = false writes to no client connection and
\* does not complete anything: it leaves the active slot, the queue and the
\* response accumulator as they are and replaces the port (or, when the reopen
\* fails, leaves it absent with the timer armed).  So a command dispatched
\* while the port is absent, once the port is reopened, is written with the
\* submitter active, the queue and the accumulator untouched and no reply to
\* anybody.
C27_QuietReset ==
  [][\A c \in Addr :
       (/\ ConnRead(c, ClientCommand(c), TRUE)
        /\ active_connection = NULL /\ ~serial_bev) =>
         LET s0 == [Cur EXCEPT !.active_connection = c, !.timer = TRUE] IN
         /\ \A ok \in BOOLEAN :
              server_serial_reset(s0, FALSE, ok, "lost") =
                [s0 EXCEPT !.serial_bev = ok, !.dev = <<>>]
         /\ serial_bev' =>
              /\ NoReply
              /\ active_connection' = c /\ timer'
              /\ cmd_queue' = cmd_queue /\ response' = response
              /\ alive' = alive
              /\ Len(wrote') = 1 /\ wrote'[1].reopened
              /\ Bytes(dev') = DeviceReply]_vars

\* a command has been written to a port reopened for it, past a record that
\* was queued and a partial reply that was accumulated before: both are still
\* there
C27_Witness ==
  /\ serial_bev /\ Len(wrote) = 1 /\ wrote[1].reopened
  /\ cmd_queue # <<>> /\ response # <<>>
  /\ \A c \in Addr : out[c] = <<>>

\* C28: a submission into an occupied slot either appends its record to the
\* queue or, when the record cannot be allocated, closes the submitting
\* connection: then nothing is written, the queue and everything else of the
\* broker are as they were (the slot is emptied if it held the submitter), and
\* the closed connection's accumulator is not touched again.  The queue only
\* ever changes by a record appended at its tail or by its head being removed
\* and written, so the records that were queued are dispatched in their order.
C28_AllocFailure ==
  [][/\ \A c \in Addr :
          (/\ ConnReadUpTo(c, ClientCommand(c), TRUE, DeepCmds)
           /\ active_connection # NULL) =>
            IF alive'[c]
            THEN /\ Len(cmd_queue') = Len(cmd_queue) + 1
                 /\ cmd_queue'[Len(cmd_queue')].connection = c
                 /\ command'[c] = <<>>
            ELSE /\ cmd_queue' = cmd_queue
                 /\ NoReply /\ wrote' = <<>>
                 /\ command'[c] = <<>>
                 /\ \A d \in Addr \ {c} :
                      alive'[d] = alive[d] /\ command'[d] = command[d]
                 /\ active_connection' =
                      IF active_connection = c THEN NULL ELSE active_connection
                 /\ <<serial_bev, timer, response, dev, crashed>>' =
                      <<serial_bev, timer, response, dev, crashed>>
     /\ cmd_queue' # cmd_queue =>
          \/ /\ Len(cmd_queue') = Len(cmd_queue) + 1
             /\ SubSeq(cmd_queue', 1, Len(cmd_queue)) = cmd_queue
          \/ /\ cmd_queue # <<>> /\ cmd_queue' = Tail(cmd_queue)
             /\ Len(wrote') = 1 /\ wrote'[1].tok = Head(cmd_queue).tok]_vars

\* a client that had a command queued behind another client's was closed when
\* its next record could not be allocated: its first record is still queued
\* and the other client's command is still active
C28_Witness ==
  /\ active_connection # NULL /\ alive[active_connection] /\ timer
  /\ \E i \in DOMAIN cmd_queue :
       /\ ~alive[cmd_queue[i].connection]
       /\ cmd_queue[i].connection # active_connection
  /\ wrote = <<>> /\ \A c \in Addr : out[c] = <<>>

\* C29: at every handler boundary, an occupied active slot has the response
\* timer armed.
C29_ActiveHasTimer == (~crashed /\ active_connection # NULL) => timer

\* a command is active with the port absent after resets that failed more than
\* once, and the timer is pending
C29_Witness ==
  /\ ~crashed /\ active_connection # NULL /\ timer
  /\ ~serial_bev /\ nerr = ErrCap

\* C30: at every handler boundary, a non-empty queue has the response timer
\* armed, also after the active connection has closed and left the slot empty.
C30_QueueHasTimer == (~crashed /\ cmd_queue # <<>>) => timer

\* the active connection has closed with a command queued behind it: the slot
\* is empty, the port is absent after a failed reset, and the timer is pending
C30_Witness ==
  /\ ~crashed /\ active_connection = NULL /\ cmd_queue # <<>> /\ timer
  /\ ~serial_bev

\* C32: for each command a connection submits, "#ERROR\r\n#STOP\r\n" is written
\* to that connection at most once, whether the command was written to the
\* device or found the port absent, and however often the reopen fails.
C32_ErrorAtMostOnce == nerr <= 1

\* C33: whenever a command is written to the serial port the response
\* accumulator is empty, so that the end of its reply is looked for only in
\* bytes received after the write.
C33_FreshAccumulator == wrote # <<>> => response = <<>>

\* C34: the end of a message is never detected while fewer than nine bytes
\* have been accumulated since the last completion: a read that leaves the
\* accumulator shorter than the nine-byte mark completes nothing (the
\* comparison has nothing before the start of the buffer to read).
C34_NoShortMatch ==
  [][\A k \in 1..Len(dev) :
       (/\ SerialRead(k) /\ active_connection # NULL
        /\ rsp_length(Cur) + k < Len(STOP_MARK)) =>
         /\ response' = response \o Bytes(SubSeq(dev, 1, k))
         /\ active_connection' = active_connection
         /\ cmd_queue' = cmd_queue /\ wrote' = <<>>]_vars

RECURSIVE QueueWalk(_, _, _)
QueueWalk(a, next, n) ==
  IF a = NULL \/ n = 0 THEN <<>>
  ELSE <<a>> \o QueueWalk(next[a], next, n - 1)

\* the records reachable from cmd_queue_start
Linked == QueueWalk(cmd_queue_start, cmd_next, LongCmds + 1)

\* the queue's structure is sound: both ends are null together, the tail is
\* the last record reached from the head, and the chain holds exactly the
\* pending records in the order of their arrival
QueueConsistent ==
  /\ (cmd_queue_start = NULL) <=> (cmd_queue_tail = NULL)
  /\ Len(Linked) <= LongCmds
  /\ Linked # <<>> => /\ cmd_queue_tail = Linked[Len(Linked)]
                      /\ cmd_next[cmd_queue_tail] = NULL
  /\ \A i, j \in 1..Len(Linked) : i # j => Linked[i] # Linked[j]
  /\ Linked = [i \in 1..Len(cmd_queue) |-> cmd_queue[i].tok]

\* a step changes the chain only by adding one record behind the others or
\* by removing the first one
OrderKept ==
  LET after == QueueWalk(cmd_queue_start', cmd_next', LongCmds + 1) IN
  \/ after = Linked
  \/ \E a \in Tok : after = Append(Linked, a)
  \/ Linked # <<>> /\ after = Tail(Linked)

\* C36: in every reachable state the head pointer is null exactly when the
\* tail pointer is, the tail is the last record reachable from the head, and
\* every enqueue and dequeue leaves the other records in their order.
C36_QueueStructure == []QueueConsistent /\ [][OrderKept]_vars

\* two records are linked and the head lives at a higher address than the
\* tail: a record was removed and its address used again behind the others
C36_Witness ==
  /\ Len(Linked) >= 2 /\ cmd_queue_start > cmd_queue_tail
  /\ cmd_next[cmd_queue_start] # NULL /\ QueueConsistent

\* the complete lines of a byte sequence, each with its newline
RECURSIVE LinesOf(_)
LinesOf(seq) ==
  IF \A i \in 1..Len(seq) : seq[i] # 10 THEN <<>>
  ELSE LET n == CHOOSE i \in 1..Len(seq) :
                  seq[i] = 10 /\ \A j \in 1..(i - 1) : seq[j] # 10
       IN <<SubSeq(seq, 1, n)>> \o LinesOf(SubSeq(seq, n + 1, Len(seq)))

NoCR(seq) == SelectSeq(seq, LAMBDA b : b # 13)

\* the lines the socket delivers, without their carriage returns
Delivered == LinesOf(NoCR(client.stream))

\* the lines in front of the first "#STOP" line
Envelope ==
  LET stop == CHOOSE i \in 1..Len(Delivered) :
                Delivered[i] = STOP_LINE
                  /\ \A j \in 1..(i - 1) : Delivered[j] # STOP_LINE
  IN SubSeq(Delivered, 1, stop - 1)

Headers == {START_LINE, ERROR_LINE}

\* the number of lines in front of the first header of the envelope
Preamble ==
  IF \A i \in 1..Len(Envelope) : Envelope[i] \notin Headers
  THEN Len(Envelope)
  ELSE (CHOOSE i \in 1..Len(Envelope) :
          Envelope[i] \in Headers
            /\ \A j \in 1..(i - 1) : Envelope[j] \notin Headers) - 1

\* the bytes the parser has taken from the socket
Consumed == SubSeq(client.stream, 1, Len(client.stream) - Len(client.input))

\* C37: when the call returns without a failed read or write from a socket
\* that delivers a "#STOP" line, it reports failure if a line in front of that
\* line is "#ERROR", the lines in front of the first header are the ones it
\* warned about and dropped, the response is the later lines that are not
\* headers, in their order, and it has consumed the socket's bytes up to the
\* end of the first "#STOP" line and no further.
C37_EnvelopeParsed ==
  (/\ client.pc = "returned" /\ ~client.io_error
   /\ \E i \in 1..Len(Delivered) : Delivered[i] = STOP_LINE) =>
    /\ (\E i \in 1..Len(Envelope) : Envelope[i] = ERROR_LINE) => ~client.ret
    /\ client.warned = SubSeq(Envelope, 1, Preamble)
    /\ client.response =
         Flatten(SelectSeq(SubSeq(Envelope, Preamble + 1, Len(Envelope)),
                           LAMBDA l : l \notin Headers))
    /\ LinesOf(NoCR(Consumed)) = Envelope \o <<STOP_LINE>>
    /\ Consumed # <<>> /\ Consumed[Len(Consumed)] = 10

\* the command with token t waits in the queue / is written to the port
Queued(t) == \E i \in DOMAIN cmd_queue : cmd_queue[i].tok = t
Written(t) == \E i \in DOMAIN wrote : wrote[i].tok = t

\* C31: when the timer fires whenever it stays pending and a reopen of the
\* port succeeds after finitely many attempts, every command in the pending
\* queue is eventually written to the serial port.
C31_QueuedEventuallyWritten == \A t \in Tok : Queued(t) ~> Written(t)

\* the same of the runs in which the process does not die
C31_WrittenUnlessCrashed == \A t \in Tok : Queued(t) ~> (Written(t) \/ crashed)

====
